---- MODULE Spec2Model ----
(***************************************************************************)
(* A model of nlp-examples.py: the pipeline loading block (lines 8-14),    *)
(* the sequence of demonstrations that follows it, the custom sentence     *)
(* boundary component set_custom_boundaries (lines 59-65) and the word     *)
(* frequency analysis (lines 199-222).                                     *)
(*                                                                         *)
(* Three specifications share the variables:                               *)
(*   SpecBound   one call of set_custom_boundaries on an arbitrary doc,    *)
(*               followed by a second call on its own result;              *)
(*   SpecFreq    lines 199-222 on an arbitrary complete_doc;               *)
(*   SpecScript  the script from line 8 to its end, the environment        *)
(*               (model installed or not, network, introduction.txt)       *)
(*               chosen in the initial state.                              *)
(* Token positions are 0-based as in the source (token.i); a doc is a      *)
(* TLA+ sequence, so token i of doc d is d[i + 1].                         *)
(***************************************************************************)
EXTENDS Integers, Sequences, FiniteSets

VARIABLES
    pc,             \* position of the script / of the function being run
    \* ---- set_custom_boundaries (lines 59-65)
    doc,            \* the Doc passed in: sequence of [text, is_sent_start]
    doc_in,         \* the doc as it was when the current call started
    span_stop,      \* end (exclusive) of the span doc[:-1] being iterated
    k,              \* position of the loop of line 62 inside the span
    writes,         \* the indices token.i + 1 line 64 has indexed doc with
    calls,          \* number of calls of set_custom_boundaries started
    ret,            \* the value returned by line 65 (<<>> wrapped: <<doc>>)
    \* ---- frequency analysis (lines 199-222)
    complete_doc,   \* sequence of [text, is_stop, is_punct]
    words,          \* line 201
    word_freq,      \* line 206: Counter as its items() in insertion order
    common_words,   \* line 208
    unique_words,   \* line 212
    words_all,      \* line 217
    freq_all,       \* lines 219-221: the Counter built inside print(...)
    common_all,     \* lines 219-221: its most_common(5)
    \* ---- the script as a whole
    env,            \* what is outside the script: model package, network,
                    \* introduction.txt
    heap,           \* the Language objects created so far: id -> contents
    nlp,            \* the global nlp: an object id, 0 while unbound
    custom_nlp,     \* the global custom_nlp: an object id, 0 while unbound
    registry,       \* component names registered with Language.component
    log             \* what has happened: sequence of events, in order

boundVars == <<doc, doc_in, span_stop, k, writes, calls, ret>>
freqVars == <<complete_doc, words, word_freq, common_words, unique_words,
              words_all, freq_all, common_all>>
scriptVars == <<env, heap, nlp, custom_nlp, registry, log>>
vars == <<pc, boundVars, freqVars, scriptVars>>

\* ------------------------------------------------------------------ bounds
MaxDocLen == 4      \* longest doc given to set_custom_boundaries
MaxWords == 6       \* longest complete_doc made of plain words only
MaxFlagged == 3     \* longest complete_doc with stop/punctuation flags

\* the sequences of exactly n elements of S
SeqsOfLen(S, n) == [1 .. n -> S]

Min(a, b) == IF a < b THEN a ELSE b
Max(a, b) == IF a > b THEN a ELSE b

\* idle values of the variables a specification does not use
idleBound ==
    /\ doc = <<>> /\ doc_in = <<>> /\ span_stop = 0 /\ k = 0
    /\ writes = {} /\ calls = 0 /\ ret = <<>>
idleFreq ==
    /\ complete_doc = <<>> /\ words = <<>> /\ word_freq = <<>>
    /\ common_words = <<>> /\ unique_words = <<>> /\ words_all = <<>>
    /\ freq_all = <<>> /\ common_all = <<>>
idleScript ==
    /\ env = [model |-> "installed", net |-> "ok", file |-> TRUE]
    /\ heap = <<>> /\ nlp = 0 /\ custom_nlp = 0 /\ registry = {} /\ log = <<>>

\* ================================================= set_custom_boundaries
DELIMITER == "..."
BoundTexts == {"...", ".", "Gus"}
\* Token.is_sent_start is None (unknown), True or False
SentStart == {"None", "True", "False"}
BoundTokens == [text : BoundTexts, is_sent_start : SentStart]

\* spacy.util.normalize_slice(length, start, stop) as Doc.__getitem__ uses it
\* for doc[:-1]: start None -> 0, stop -1 -> length - 1, both clamped
NormalizeStop(length, start, stop) ==
    LET s == IF stop < 0 THEN stop + length ELSE stop
    IN  Min(length, Max(start, s))

\* variant: the loop runs over doc instead of doc[:-1]
SpanStopWholeDoc(d) == Len(d)

\* line 62: the span doc[:-1] is the token positions 0 .. SpanStop(d) - 1
SpanStop(d) == NormalizeStop(Len(d), 0, -1)

\* line 63: token.text == "..."
IsDelimiter(token) == token.text = DELIMITER

\* variant: the delimiter itself is marked (doc[token.i])
MarkTargetSelf(i) == i

\* line 64: the position indexed, from the position token.i of the delimiter
MarkTarget(i) == i + 1

\* variant: the flag is cleared instead of set
MarkValueFalse == "False"

\* line 64: the value assigned to is_sent_start
MarkValue == "True"

\* line 64: doc[j].is_sent_start = True; the other fields of the token and
\* the other tokens are what they were
SetSentStart(d, j) ==
    [d EXCEPT ![j + 1] = [@ EXCEPT !.is_sent_start = MarkValue]]

InitBound ==
    /\ pc = "call"
    /\ \E n \in 0 .. MaxDocLen : doc \in SeqsOfLen(BoundTokens, n)
    /\ doc_in = doc
    /\ span_stop = 0 /\ k = 0 /\ writes = {} /\ calls = 0 /\ ret = <<>>
    /\ idleFreq /\ idleScript

\* line 60-62: enter the function, build the span doc[:-1], start the loop.
\* The second call is given the doc the first call returned (line 65).
Call ==
    /\ pc \in {"call", "returned"}
    /\ calls < 2
    /\ calls' = calls + 1
    /\ doc_in' = doc
    /\ span_stop' = SpanStop(doc)
    /\ k' = 0
    /\ writes' = {}
    /\ ret' = <<>>
    /\ pc' = "loop"
    /\ UNCHANGED <<doc, freqVars, scriptVars>>

\* lines 62-64: one iteration of the loop over the span
LoopBody ==
    /\ pc = "loop"
    /\ k < span_stop
    /\ LET token == doc[k + 1]
           j == MarkTarget(k)
       IN  IF IsDelimiter(token)
           THEN /\ writes' = writes \cup {j}
                /\ IF j >= 0 /\ j < Len(doc)
                   THEN /\ doc' = SetSentStart(doc, j)
                        /\ k' = k + 1
                        /\ pc' = "loop"
                   ELSE \* doc[j] raises IndexError
                        /\ pc' = "IndexError"
                        /\ UNCHANGED <<doc, k>>
           ELSE /\ k' = k + 1
                /\ UNCHANGED <<doc, writes, pc>>
    /\ UNCHANGED <<doc_in, span_stop, calls, ret, freqVars, scriptVars>>

\* line 62 exhausted, line 65: return doc
Return ==
    /\ pc = "loop"
    /\ k >= span_stop
    /\ ret' = <<doc>>
    /\ pc' = "returned"
    /\ UNCHANGED <<doc, doc_in, span_stop, k, writes, calls, freqVars, scriptVars>>

NextBound == Call \/ LoopBody \/ Return

SpecBound == InitBound /\ [][NextBound]_vars

\* ---- properties of set_custom_boundaries
Positions(d) == 0 .. Len(d) - 1
TextAt(d, i) == d[i + 1].text
FlagAt(d, i) == d[i + 1].is_sent_start
FollowsDelimiter(d, i) == i >= 1 /\ TextAt(d, i - 1) = "..."

\* C4: after set_custom_boundaries(doc) returns, every token that has a
\* "..." token immediately before it has is_sent_start = True, also when it
\* is itself a "..." and when there are several "...".
C4_NextTokenMarked ==
    pc = "returned" =>
        \A i \in Positions(ret[1]) :
            (TextAt(ret[1], i) = "..." /\ i + 1 < Len(ret[1]))
                => FlagAt(ret[1], i + 1) = "True"

\* a first call has returned on a doc with two adjacent delimiters followed
\* by a token that came in flagged False, and a further delimiter
C4_Witness ==
    /\ pc = "returned" /\ calls = 1
    /\ Len(doc) = 4
    /\ TextAt(doc, 0) = "..." /\ TextAt(doc, 1) = "..."
    /\ TextAt(doc, 2) = "Gus" /\ TextAt(doc, 3) = "..."
    /\ FlagAt(doc_in, 1) = "None" /\ FlagAt(doc_in, 2) = "False"
    /\ FlagAt(doc, 1) = "True" /\ FlagAt(doc, 2) = "True"

\* what a call leaves of the doc it was given: same tokens, same texts, and
\* a flag differs only on a token that follows a "...", where it is True
FrameOf(before, after) ==
    /\ Len(after) = Len(before)
    /\ \A i \in Positions(before) :
        /\ TextAt(after, i) = TextAt(before, i)
        /\ FlagAt(after, i) # FlagAt(before, i)
              => (FollowsDelimiter(before, i) /\ FlagAt(after, i) = "True")
        /\ FlagAt(after, i) = "False" => FlagAt(before, i) = "False"

\* C7: set_custom_boundaries changes nothing but the sentence-start flag of
\* tokens that follow a "..." (at every step of the scan, not only at the
\* end), never sets a flag to False, keeps number, order and text of the
\* tokens, returns the doc it was given, and a second call on its own result
\* changes nothing.
C7_StatelessFrame ==
    /\ pc \in {"loop", "returned"} => FrameOf(doc_in, doc)
    /\ pc = "returned" => ret = <<doc>>
    /\ (pc = "returned" /\ calls = 2) => doc = doc_in

\* the second call has returned on a doc whose first call changed a flag
\* from False to True and left a False flag of a token not after "..."
C7_Witness ==
    /\ pc = "returned" /\ calls = 2
    /\ Len(doc) >= 3
    /\ TextAt(doc, 0) = "." /\ FlagAt(doc, 0) = "False"
    /\ TextAt(doc, 1) = "..." /\ FlagAt(doc, 1) = "False"
    /\ FlagAt(doc, 2) = "True"

\* C9: line 64 never indexes doc outside 0 .. len(doc) - 1; an empty or
\* one-token doc is returned unmarked, and a "..." in the last position
\* marks nothing and raises nothing.
C9_NoOutOfRange ==
    /\ pc # "IndexError"
    /\ \A j \in writes : 0 <= j /\ j < Len(doc)
    /\ (pc = "returned" /\ Len(doc) <= 1) => (writes = {} /\ doc = doc_in)
    /\ pc = "returned" =>
          writes = {i + 1 : i \in {p \in Positions(doc) :
                                      TextAt(doc, p) = "..." /\ p + 1 < Len(doc)}}

\* a call has returned on a doc whose last token is "..." and whose first
\* token is "..." too, so that something was written
C9_Witness ==
    /\ pc = "returned" /\ calls = 1
    /\ Len(doc) >= 2
    /\ TextAt(doc, Len(doc) - 1) = "..."
    /\ TextAt(doc, 0) = "..."
    /\ writes # {}

\* a call has returned on a one-token doc that is a single "..."
C9_WitnessSingle ==
    pc = "returned" /\ Len(doc) = 1 /\ TextAt(doc, 0) = "..."
\* ===================================================== frequency analysis
\* texts of the documents made of plain words only, and of the documents
\* whose tokens carry stop-word and punctuation flags
PlainTexts == {"Gus", "Python", "London", "talk", "Piano", "Natural"}
FlaggedTexts == {"Gus", "is", "."}
PlainTokens == [text : PlainTexts, is_stop : {FALSE}, is_punct : {FALSE}]
FlaggedTokens == [text : FlaggedTexts, is_stop : BOOLEAN, is_punct : BOOLEAN]

\* line 208, line 221: the argument of most_common
TopK == 5

\* variant: punctuation is not filtered out
KeepWordIgnoringPunct(token) == ~token.is_stop

\* line 204: if not token.is_stop and not token.is_punct
KeepWord(token) == ~token.is_stop /\ ~token.is_punct

\* variant: the filter of line 217 tests is_stop instead of is_punct
KeepAllTestingStop(token) == ~token.is_stop

\* line 217, line 220: if not token.is_punct
KeepAll(token) == ~token.is_punct

\* lines 201-205: [token.text for token in complete_doc if ...], from token i
RECURSIVE WordsFrom(_, _)
WordsFrom(d, i) ==
    IF i > Len(d) THEN <<>>
    ELSE (IF KeepWord(d[i]) THEN <<d[i].text>> ELSE <<>>) \o WordsFrom(d, i + 1)

\* line 217, line 220: [token.text for token in complete_doc if not token.is_punct]
RECURSIVE WordsAllFrom(_, _)
WordsAllFrom(d, i) ==
    IF i > Len(d) THEN <<>>
    ELSE (IF KeepAll(d[i]) THEN <<d[i].text>> ELSE <<>>) \o WordsAllFrom(d, i + 1)

\* A Counter is modelled by its items(): the <<key, count>> pairs in the
\* order the keys were inserted (a dict keeps insertion order).
KeyIndex(items, w) ==
    IF \E i \in 1 .. Len(items) : items[i][1] = w
    THEN CHOOSE i \in 1 .. Len(items) : items[i][1] = w
    ELSE 0

\* variant: a key seen again is stored with 1 instead of incremented
CounterAddOverwriting(items, w) ==
    LET i == KeyIndex(items, w)
    IN  IF i = 0 THEN Append(items, <<w, 1>>)
        ELSE [items EXCEPT ![i] = <<w, 1>>]

\* line 206: Counter.update, one element: self[elem] = self.get(elem, 0) + 1
CounterAdd(items, w) ==
    LET i == KeyIndex(items, w)
    IN  IF i = 0 THEN Append(items, <<w, 1>>)
        ELSE [items EXCEPT ![i] = <<w, items[i][2] + 1>>]

\* line 206: Counter(ws), a single pass over ws from the left
RECURSIVE CounterFrom(_, _, _)
CounterFrom(items, ws, i) ==
    IF i > Len(ws) THEN items
    ELSE CounterFrom(CounterAdd(items, ws[i]), ws, i + 1)

Counter(ws) == CounterFrom(<<>>, ws, 1)

\* variant: an item is placed before the items of equal count (ties come
\* out in reverse insertion order, as an unstable sort may leave them)
PlaceBeforeTies(sorted, x) ==
    LET n == Cardinality({i \in 1 .. Len(sorted) : sorted[i][2] > x[2]})
    IN  SubSeq(sorted, 1, n) \o <<x>> \o SubSeq(sorted, n + 1, Len(sorted))

\* sorted(items, key=itemgetter(1), reverse=True) is stable: x, which comes
\* after the items already placed, goes after those of count >= its own
PlaceSorted(sorted, x) ==
    LET n == Cardinality({i \in 1 .. Len(sorted) : sorted[i][2] >= x[2]})
    IN  SubSeq(sorted, 1, n) \o <<x>> \o SubSeq(sorted, n + 1, Len(sorted))

RECURSIVE SortedDesc(_, _, _)
SortedDesc(sorted, items, i) ==
    IF i > Len(items) THEN sorted
    ELSE SortedDesc(PlaceSorted(sorted, items[i]), items, i + 1)

\* line 208: Counter.most_common(n) is heapq.nlargest(n, items, key=count),
\* which is sorted(items, key=count, reverse=True)[:n]
MostCommon(items, n) ==
    LET s == SortedDesc(<<>>, items, 1)
    IN  SubSeq(s, 1, Min(n, Len(s)))

\* variant: every word counted is taken for unique
IsUniqueFreqAny(freq) == freq >= 1

\* line 212: if freq == 1
IsUniqueFreq(freq) == freq = 1

\* line 212: [word for (word, freq) in word_freq.items() if freq == 1]
RECURSIVE UniqueFrom(_, _)
UniqueFrom(items, i) ==
    IF i > Len(items) THEN <<>>
    ELSE (IF IsUniqueFreq(items[i][2]) THEN <<items[i][1]>> ELSE <<>>)
         \o UniqueFrom(items, i + 1)

InitFreq ==
    /\ pc = "line199"
    /\ \/ \E n \in 0 .. MaxWords : complete_doc \in SeqsOfLen(PlainTokens, n)
       \/ \E n \in 0 .. MaxFlagged : complete_doc \in SeqsOfLen(FlaggedTokens, n)
    /\ words = <<>> /\ word_freq = <<>> /\ common_words = <<>>
    /\ unique_words = <<>> /\ words_all = <<>> /\ freq_all = <<>>
    /\ common_all = <<>>
    /\ idleBound /\ idleScript

\* lines 201-205
BuildWords ==
    /\ pc = "line199"
    /\ words' = WordsFrom(complete_doc, 1)
    /\ pc' = "line206"
    /\ UNCHANGED <<complete_doc, word_freq, common_words, unique_words,
                   words_all, freq_all, common_all, boundVars, scriptVars>>

\* line 206
CountWords ==
    /\ pc = "line206"
    /\ word_freq' = Counter(words)
    /\ pc' = "line208"
    /\ UNCHANGED <<complete_doc, words, common_words, unique_words,
                   words_all, freq_all, common_all, boundVars, scriptVars>>

\* lines 208-209
CommonWords ==
    /\ pc = "line208"
    /\ common_words' = MostCommon(word_freq, TopK)
    /\ pc' = "line212"
    /\ UNCHANGED <<complete_doc, words, word_freq, unique_words,
                   words_all, freq_all, common_all, boundVars, scriptVars>>

\* lines 212-213
UniqueWords ==
    /\ pc = "line212"
    /\ unique_words' = UniqueFrom(word_freq, 1)
    /\ pc' = "line217"
    /\ UNCHANGED <<complete_doc, words, word_freq, common_words,
                   words_all, freq_all, common_all, boundVars, scriptVars>>

\* line 217
BuildWordsAll ==
    /\ pc = "line217"
    /\ words_all' = WordsAllFrom(complete_doc, 1)
    /\ pc' = "line218"
    /\ UNCHANGED <<complete_doc, words, word_freq, common_words, unique_words,
                   freq_all, common_all, boundVars, scriptVars>>

\* lines 218-222: the list is built again from complete_doc, counted, and
\* its five most common entries printed
CountAll ==
    /\ pc = "line218"
    /\ freq_all' = Counter(WordsAllFrom(complete_doc, 1))
    /\ common_all' = MostCommon(freq_all', TopK)
    /\ pc' = "line224"
    /\ UNCHANGED <<complete_doc, words, word_freq, common_words, unique_words,
                   words_all, boundVars, scriptVars>>

NextFreq ==
    BuildWords \/ CountWords \/ CommonWords \/ UniqueWords \/ BuildWordsAll \/ CountAll

SpecFreq == InitFreq /\ [][NextFreq]_vars
\* ---- properties of the frequency analysis
Occurrences(ws, w) == Cardinality({i \in 1 .. Len(ws) : ws[i] = w})
FirstSeen(ws, w) == CHOOSE i \in 1 .. Len(ws) :
                        ws[i] = w /\ \A j \in 1 .. i - 1 : ws[j] # w
TextsOf(ws) == {ws[i] : i \in 1 .. Len(ws)}
KeysOf(items) == {items[i][1] : i \in 1 .. Len(items)}
NoKeyTwice(items) ==
    \A i, j \in 1 .. Len(items) : items[i][1] = items[j][1] => i = j
NoTextTwice(ws) == \A i, j \in 1 .. Len(ws) : ws[i] = ws[j] => i = j
RECURSIVE SumCounts(_, _)
SumCounts(items, i) ==
    IF i > Len(items) THEN 0 ELSE items[i][2] + SumCounts(items, i + 1)
Counted == pc \in {"line208", "line212", "line217", "line218", "line224"}
HasCommon == pc \in {"line212", "line217", "line218", "line224"}
HasUnique == pc \in {"line217", "line218", "line224"}

\* C1: the keys of word_freq = Counter(words) are exactly the distinct texts
\* of words, each key is mapped to the number of positions of words holding
\* it (so at least 1), and the counts add up to len(words).
C1_CounterCounts ==
    Counted =>
        /\ KeysOf(word_freq) = TextsOf(words)
        /\ NoKeyTwice(word_freq)
        /\ \A i \in 1 .. Len(word_freq) :
              /\ word_freq[i][2] = Occurrences(words, word_freq[i][1])
              /\ word_freq[i][2] >= 1
        /\ SumCounts(word_freq, 1) = Len(words)

\* words holds one text three times, another once, with other texts between
C1_Witness ==
    /\ Counted
    /\ Len(words) = 6
    /\ \E i, j \in 1 .. Len(word_freq) :
          /\ word_freq[i][2] = 3 /\ word_freq[j][2] = 1
          /\ i < j
          /\ words[6] = word_freq[i][1]

C2_WitnessReordered ==
    /\ HasCommon
    /\ Len(common_words) = 3
    /\ common_words[1][2] = 3 /\ common_words[2][2] = 1 /\ common_words[3][2] = 1
    /\ FirstSeen(words, common_words[1][1]) = 3

\* C3: unique_words holds exactly the texts counted once in word_freq, that
\* is the texts occurring exactly once in words, none twice, in the order of
\* their first occurrence in words.
C3_UniqueWords ==
    HasUnique =>
        /\ TextsOf(unique_words) = {w \in TextsOf(words) : Occurrences(words, w) = 1}
        /\ TextsOf(unique_words)
             = {word_freq[i][1] : i \in {n \in 1 .. Len(word_freq) : word_freq[n][2] = 1}}
        /\ NoTextTwice(unique_words)
        /\ \A i, j \in 1 .. Len(unique_words) :
              i < j => FirstSeen(words, unique_words[i]) < FirstSeen(words, unique_words[j])

\* two texts occur once, around a text that occurs twice
C3_Witness ==
    /\ HasUnique
    /\ Len(unique_words) = 2
    /\ Len(words) = 4
    /\ words[1] = unique_words[1] /\ words[4] = unique_words[2]
    /\ words[2] = words[3]

\* positions (1-based) of the tokens of d that pass a filter
PlainPositions(d) == {p \in 1 .. Len(d) : ~d[p].is_stop /\ ~d[p].is_punct}
NonPunctPositions(d) == {p \in 1 .. Len(d) : ~d[p].is_punct}
\* ws is the texts of the tokens of d at the positions P, in document order
IsTextsAt(ws, d, P) ==
    /\ Len(ws) = Cardinality(P)
    /\ \A p \in P : ws[Cardinality({q \in P : q <= p})] = d[p].text
CountIn(items, w) ==
    IF KeyIndex(items, w) = 0 THEN 0 ELSE items[KeyIndex(items, w)][2]
AllTexts == PlainTexts \cup FlaggedTexts

\* C6: words is the texts of the tokens of complete_doc that are neither stop
\* words nor punctuation, in document order, repetitions kept; so the count
\* of a text in word_freq is the number of such tokens with that text, and
\* every text of common_words and unique_words is the text of such a token.
C6_WordsFiltered ==
    /\ pc # "line199" => IsTextsAt(words, complete_doc, PlainPositions(complete_doc))
    /\ Counted =>
          \A w \in AllTexts :
              CountIn(word_freq, w)
                = Cardinality({p \in PlainPositions(complete_doc) : complete_doc[p].text = w})
    /\ HasUnique =>
          \A w \in KeysOf(common_words) \cup TextsOf(unique_words) :
              \E p \in PlainPositions(complete_doc) : complete_doc[p].text = w

\* a stop word, a punctuation token and a plain token with the same text
C6_Witness ==
    /\ HasUnique
    /\ Len(complete_doc) = 3
    /\ complete_doc[1].text = "Gus" /\ complete_doc[1].is_stop /\ ~complete_doc[1].is_punct
    /\ complete_doc[2].text = "Gus" /\ ~complete_doc[2].is_stop /\ complete_doc[2].is_punct
    /\ complete_doc[3].text = "Gus" /\ ~complete_doc[3].is_stop /\ ~complete_doc[3].is_punct
    /\ words = <<"Gus">> /\ unique_words = <<"Gus">>

RECURSIVE IsSubsequence(_, _, _, _)
\* a[i..] can be matched, in order, inside b[j..]
IsSubsequence(a, i, b, j) ==
    IF i > Len(a) THEN TRUE
    ELSE IF j > Len(b) THEN FALSE
    ELSE IF a[i] = b[j] THEN IsSubsequence(a, i + 1, b, j + 1)
    ELSE IsSubsequence(a, i, b, j + 1)

\* C10: words is a subsequence of words_all; no text has a smaller count in
\* Counter(words_all) than in word_freq; and len(words_all) - len(words) is
\* the number of tokens that are stop words and not punctuation.
C10_StopWordsOnlyAdd ==
    pc \in {"line218", "line224"} =>
        /\ IsTextsAt(words_all, complete_doc, NonPunctPositions(complete_doc))
        /\ IsSubsequence(words, 1, words_all, 1)
        /\ Len(words_all) - Len(words)
             = Cardinality({p \in 1 .. Len(complete_doc) :
                              complete_doc[p].is_stop /\ ~complete_doc[p].is_punct})
        /\ pc = "line224" =>
              /\ \A w \in AllTexts : CountIn(freq_all, w) >= CountIn(word_freq, w)
              /\ \A w \in AllTexts : CountIn(freq_all, w) = Occurrences(words_all, w)

\* a stop word raises the count of a text, a punctuation token does not
C10_Witness ==
    /\ pc = "line224"
    /\ Len(complete_doc) = 3
    /\ Len(words) = 1 /\ Len(words_all) = 2
    /\ CountIn(freq_all, "is") = 2 /\ CountIn(word_freq, "is") = 1
    /\ \E p \in 1 .. 3 : complete_doc[p].is_punct /\ complete_doc[p].is_stop
\* ============================================================ the script
\* The environment decides what the calls into spaCy and the file system do:
\*   model  "installed": spacy.load returns a new Language object
\*          "missing":   spacy.load raises OSError (model not found)
\*          "broken":    spacy.load raises another exception
\*   net    "ok":    download installs the package
\*          "down":  download fails and raises
\*          "stale": download returns, the running process still cannot
\*                   find the package
\*   file   introduction.txt exists
Envs == [model : {"installed", "missing", "broken"},
         net : {"ok", "down", "stale"},
         file : BOOLEAN]

\* what spacy.load("en_core_web_sm") creates: the components of the
\* pipeline in order, and its tokenizer (its infix rules, and the object
\* whose vocab it uses: 0 is the object's own)
NewLanguage ==
    [pipe_names |-> <<"tok2vec", "tagger", "parser", "attribute_ruler",
                      "lemmatizer", "ner">>,
     tokenizer |-> [infixes |-> "default", vocab_of |-> 0]]

\* lines 9, 14, 75, 120: the outcome of spacy.load in environment e
LoadOutcome(e) ==
    CASE e.model = "installed" -> "ok"
      [] e.model = "missing" -> "OSError"
      [] OTHER -> "ValueError"

\* variant: a bare except, every exception of the first load is handled
HandledAny(exc) == TRUE

\* line 10: except OSError
Handled(exc) == exc = "OSError"

\* the statements after line 14, in order, by the line they start on
Lines == <<"line16", "line23", "line31", "line32", "line37", "line47",
           "line59", "line75", "line76", "line77", "line82", "line89",
           "line118", "line120", "line132", "line140", "line146", "line173",
           "line199", "line201", "line217", "line226", "end">>
After(l) == Lines[(CHOOSE i \in 1 .. Len(Lines) : Lines[i] = l) + 1]

\* statements that evaluate nlp (print(nlp), nlp(text))
NlpLines == {"line16", "line23", "line32", "line37", "line47", "line82",
             "line118", "line173", "line199"}
\* statements that call custom_nlp(text)
CustomNlpLines == {"line77", "line140"}
\* custom_nlp = spacy.load("en_core_web_sm")
CustomLoadLines == {"line75", "line120"}
\* statements that only read docs made earlier, or module data of spaCy
\* (89-107, 146-163, 201-213, 217-222, 226-233)
DocOnlyLines == {"line89", "line146", "line201", "line217", "line226"}

\* an event of the log: the operation, its line, the object it created or
\* used (0: none), its outcome, and for a use of a pipeline what the
\* pipeline was at that moment (<<>>: not a use)
Event(op, line, obj, result) ==
    [op |-> op, line |-> line, obj |-> obj, result |-> result, seen |-> <<>>]
UseEvent(line, obj) ==
    [op |-> "use", line |-> line, obj |-> obj, result |-> "ok", seen |-> <<heap[obj]>>]

InitScript ==
    /\ pc = "line9"
    /\ env \in Envs
    /\ heap = <<>> /\ nlp = 0 /\ custom_nlp = 0 /\ registry = {} /\ log = <<>>
    /\ idleBound /\ idleFreq

\* lines 8-10: the first load; OSError is handled, any other exception ends
\* the script
LoadFirst ==
    /\ pc = "line9"
    /\ LET r == LoadOutcome(env)
       IN  /\ log' = Append(log, Event("load", "line9", Len(heap) + 1, r))
           /\ IF r = "ok"
              THEN /\ heap' = Append(heap, NewLanguage)
                   /\ nlp' = Len(heap) + 1
                   /\ pc' = "line16"
              ELSE /\ pc' = IF Handled(r) THEN "line13" ELSE "raised"
                   /\ UNCHANGED <<heap, nlp>>
    /\ UNCHANGED <<env, custom_nlp, registry, boundVars, freqVars>>

\* lines 11-13: download("en_core_web_sm"), inside the handler
Download ==
    /\ pc = "line13"
    /\ IF env.net = "down"
       THEN /\ log' = Append(log, Event("download", "line13", 0, "SystemExit"))
            /\ pc' = "raised"
            /\ UNCHANGED env
       ELSE /\ log' = Append(log, Event("download", "line13", 0, "ok"))
            /\ env' = [env EXCEPT !.model = IF env.net = "ok" THEN "installed" ELSE @]
            /\ pc' = "line14"
    /\ UNCHANGED <<heap, nlp, custom_nlp, registry, boundVars, freqVars>>

\* line 14: the load again, still inside the handler: nothing catches what
\* it raises
LoadRetry ==
    /\ pc = "line14"
    /\ LET r == LoadOutcome(env)
       IN  /\ log' = Append(log, Event("load", "line14", Len(heap) + 1, r))
           /\ IF r = "ok"
              THEN /\ heap' = Append(heap, NewLanguage)
                   /\ nlp' = Len(heap) + 1
                   /\ pc' = "line16"
              ELSE /\ pc' = "raised"
                   /\ UNCHANGED <<heap, nlp>>
    /\ UNCHANGED <<env, custom_nlp, registry, boundVars, freqVars>>

\* lines 16, 23, 32, 37, 47, 82, 118, 173, 199: the global nlp is evaluated
\* (NameError while it is unbound) and, but for line 16, called on a text
UseNlp ==
    /\ pc \in NlpLines
    /\ IF nlp = 0
       THEN /\ log' = Append(log, Event("use", pc, 0, "NameError"))
            /\ pc' = "raised"
       ELSE /\ log' = Append(log, UseEvent(pc, nlp))
            /\ pc' = After(pc)
    /\ UNCHANGED <<env, heap, nlp, custom_nlp, registry, boundVars, freqVars>>

\* line 31: pathlib.Path(file_name).read_text()
ReadFile ==
    /\ pc = "line31"
    /\ pc' = IF env.file THEN After(pc) ELSE "raised"
    /\ log' = Append(log, Event("read", pc, 0,
                                IF env.file THEN "ok" ELSE "FileNotFoundError"))
    /\ UNCHANGED <<env, heap, nlp, custom_nlp, registry, boundVars, freqVars>>

\* lines 59-65: the decorator registers the function under its name
RegisterComponent ==
    /\ pc = "line59"
    /\ registry' = registry \cup {"set_custom_boundaries"}
    /\ pc' = After(pc)
    /\ UNCHANGED <<env, heap, nlp, custom_nlp, log, boundVars, freqVars>>

\* lines 75, 120: custom_nlp = spacy.load("en_core_web_sm")
LoadCustom ==
    /\ pc \in CustomLoadLines
    /\ LET r == LoadOutcome(env)
       IN  /\ log' = Append(log, Event("load", pc, Len(heap) + 1, r))
           /\ IF r = "ok"
              THEN /\ heap' = Append(heap, NewLanguage)
                   /\ custom_nlp' = Len(heap) + 1
                   /\ pc' = After(pc)
              ELSE /\ pc' = "raised"
                   /\ UNCHANGED <<heap, custom_nlp>>
    /\ UNCHANGED <<env, nlp, registry, boundVars, freqVars>>

\* Language.add_pipe(name, before=other): name is put right before other
InsertBefore(names, name, other) ==
    LET i == CHOOSE n \in 1 .. Len(names) : names[n] = other
    IN  SubSeq(names, 1, i - 1) \o <<name>> \o SubSeq(names, i, Len(names))

\* line 76: the object add_pipe is called on
AddPipeTarget == custom_nlp

\* line 76: custom_nlp.add_pipe("set_custom_boundaries", before="parser")
AddPipe ==
    /\ pc = "line76"
    /\ IF "set_custom_boundaries" \in registry
       THEN /\ heap' = [heap EXCEPT ![AddPipeTarget].pipe_names =
                            InsertBefore(@, "set_custom_boundaries", "parser")]
            /\ pc' = After(pc)
       ELSE /\ pc' = "raised"
            /\ UNCHANGED heap
    /\ UNCHANGED <<env, nlp, custom_nlp, registry, log, boundVars, freqVars>>

\* lines 77, 140: custom_nlp(text)
UseCustomNlp ==
    /\ pc \in CustomNlpLines
    /\ log' = Append(log, UseEvent(pc, custom_nlp))
    /\ pc' = After(pc)
    /\ UNCHANGED <<env, heap, nlp, custom_nlp, registry, boundVars, freqVars>>

\* variant: the tokenizer of nlp is replaced
TokenizerTargetNlp == nlp

\* line 132: the object whose tokenizer is assigned
TokenizerTarget == custom_nlp

\* lines 121-138: custom_nlp.tokenizer = Tokenizer(nlp.vocab, ...) with the
\* default infixes and "@"
SetTokenizer ==
    /\ pc = "line132"
    /\ heap' = [heap EXCEPT ![TokenizerTarget].tokenizer =
                    [infixes |-> "default+@", vocab_of |-> nlp]]
    /\ pc' = After(pc)
    /\ UNCHANGED <<env, nlp, custom_nlp, registry, log, boundVars, freqVars>>

\* lines 89-107, 146-163, 201-213, 217-222, 226-233: statements that touch
\* no pipeline object
DocOnly ==
    /\ pc \in DocOnlyLines
    /\ pc' = After(pc)
    /\ UNCHANGED <<scriptVars, boundVars, freqVars>>

NextScript ==
    \/ LoadFirst \/ Download \/ LoadRetry \/ UseNlp \/ ReadFile
    \/ RegisterComponent \/ LoadCustom \/ AddPipe \/ UseCustomNlp
    \/ SetTokenizer \/ DocOnly

SpecScript == InitScript /\ [][NextScript]_vars
\* ---- properties of the script
EventsAt(line) == {i \in 1 .. Len(log) : log[i].line = line}
Uses == {i \in 1 .. Len(log) : log[i].op = "use"}
\* a statement after the loading block has been run
DemoEvents == {i \in 1 .. Len(log) : log[i].line \notin {"line9", "line13", "line14"}}
InLoadingBlock == pc \in {"line9", "line13", "line14"}

\* C5: the loading block handles one failure only. A first load that
\* succeeds is the only load of the block and no download is made; a first
\* load that raises OSError is followed by one download and then, if that
\* returns, by one more load; any other exception of the first load, a
\* failing download and a failing second load end the script with nothing
\* after the block run; and nothing after the block runs while nlp is
\* unbound.
C5_LoadOnceOrDownloadAndRetry ==
    /\ Cardinality(EventsAt("line9")) <= 1
    /\ Cardinality(EventsAt("line13")) <= 1
    /\ Cardinality(EventsAt("line14")) <= 1
    /\ pc # "line9" =>
          /\ log[1].op = "load" /\ log[1].line = "line9"
          /\ log[1].result = "ok" =>
                (EventsAt("line13") = {} /\ EventsAt("line14") = {} /\ nlp # 0)
          /\ log[1].result = "OSError" =>
                /\ pc # "line13" => (log[2].op = "download" /\ log[2].line = "line13")
                /\ (pc \notin {"line13", "line14"} /\ log[2].result = "ok")
                      => (log[3].op = "load" /\ log[3].line = "line14")
                /\ (pc # "line13" /\ log[2].result # "ok")
                      => (pc = "raised" /\ Len(log) = 2 /\ nlp = 0)
                /\ (Len(log) >= 3 /\ log[3].result # "ok")
                      => (pc = "raised" /\ Len(log) = 3 /\ nlp = 0)
          /\ log[1].result \notin {"ok", "OSError"} =>
                (pc = "raised" /\ Len(log) = 1 /\ nlp = 0)
    /\ nlp = 0 => (DemoEvents = {} /\ (InLoadingBlock \/ pc = "raised"))
    /\ \A i \in Uses : log[i].result # "NameError"

\* the model was missing, was downloaded, the second load bound nlp and the
\* script ran to its end
C5_Witness ==
    /\ pc = "end"
    /\ Len(log) > 3
    /\ log[1].result = "OSError"
    /\ log[2].op = "download" /\ log[2].result = "ok"
    /\ log[3].op = "load" /\ log[3].line = "line14" /\ log[3].result = "ok"
    /\ log[4].op = "use" /\ log[4].obj = nlp

\* the download returned and the second load failed: the script ended there
C5_WitnessRetryFails ==
    /\ pc = "raised" /\ Len(log) = 3 /\ log[3].result = "OSError" /\ nlp = 0

\* C8 as stated: once nlp is bound, no other pipeline object is created,
\* bound or mutated, and every demonstration runs against nlp, unmodified.
C8_NoOtherPipeline ==
    nlp # 0 =>
        /\ Len(heap) = 1
        /\ custom_nlp = 0
        /\ heap[nlp] = NewLanguage
        /\ \A i \in Uses : log[i].obj = nlp /\ log[i].seen = <<NewLanguage>>

\* C8, amended: once nlp is bound it is never bound again, the object it
\* names keeps the components and the tokenizer it was loaded with, and
\* every statement that uses nlp finds it so. The script creates two more
\* pipeline objects, bound to custom_nlp in turn (lines 75, 120), adds a
\* component to the first and replaces the tokenizer of the second; the
\* calls of lines 77 and 140 run against those.
C8_NlpNeverTouched ==
    /\ nlp \in {0, 1}
    /\ Len(heap) <= 3
    /\ nlp # 0 => heap[nlp] = NewLanguage
    /\ \A i \in Uses :
          IF log[i].line \in NlpLines
          THEN log[i].obj = nlp /\ log[i].seen = <<NewLanguage>>
          ELSE /\ log[i].obj # nlp /\ log[i].seen # <<NewLanguage>>
               /\ log[i].obj = IF log[i].line = "line77" THEN 2 ELSE 3

\* the script ended: nlp is the first object, custom_nlp the third, the
\* second has the added component and the third the replaced tokenizer
C8_Witness ==
    /\ pc = "end"
    /\ nlp = 1 /\ custom_nlp = 3 /\ Len(heap) = 3
    /\ heap[2].pipe_names = <<"tok2vec", "tagger", "set_custom_boundaries", "parser",
                               "attribute_ruler", "lemmatizer", "ner">>
    /\ heap[3].tokenizer = [infixes |-> "default+@", vocab_of |-> 1]
    /\ \E i \in Uses : log[i].line = "line199" /\ log[i].seen = <<NewLanguage>>
====
